---- MODULE Spec2Model ----
(***************************************************************************)
(* GitLab Issues Exporter (main.py): the paginated fetch loop, the driver  *)
(* and the spreadsheet export, as a state machine.                          *)
(*                                                                         *)
(* Text is a sequence of one-character strings, so that len(), "in" and    *)
(* the f-string renderings of the source are computed, not assumed.        *)
(* A dict is a function whose DOMAIN is its key set; d.get(k, default) and *)
(* d[k] (KeyError on a missing key) are modelled on that domain.           *)
(* An optional value (None or a value) is <<>> or <<value>>.               *)
(***************************************************************************)
EXTENDS Integers, Sequences, FiniteSets, TLC

VARIABLES
    pc,          \* control point of main() / fetch_issues / export_to_excel
    project,     \* the issues the server holds for the project, in API order
    start_date,  \* main: start_date (<<>> is None)
    end_date,    \* main: end_date   (<<>> is None)
    params,      \* fetch_issues: params
    requests,    \* the GET requests issued so far (the params of each), in order
    responses,   \* what each request met: a page, or a failure
    all_issues,  \* fetch_issues: all_issues
    issues,      \* main: issues (the value fetch_issues returned)
    console,     \* everything printed on stdout, in order
    ws,          \* export_to_excel: the worksheet, row number -> 10 cells
    row_i,       \* export_to_excel: position of the row loop in issues (1-based)
    saved,       \* the documents persisted by wb.save
    seconds,     \* format_time_seconds: its argument
    formatted    \* format_time_seconds: its result

vars == <<pc, project, start_date, end_date, params, requests, responses, all_issues,
          issues, console, ws, row_i, saved, seconds, formatted>>

(***************************************************************************)
(* Bounds                                                                  *)
(***************************************************************************)
MaxIssues == 4       \* issues of a small project at most
MaxPageLen == 2      \* records the server of a small project puts in a page at most
MaxSeconds == 36610  \* largest duration given to format_time_seconds alone

(***************************************************************************)
(* Text                                                                    *)
(***************************************************************************)
Digits == <<"0", "1", "2", "3", "4", "5", "6", "7", "8", "9">>

\* str(n) of a non-negative int
RECURSIVE ToStr(_)
ToStr(n) == IF n < 10 THEN <<Digits[n + 1]>>
            ELSE ToStr(n \div 10) \o <<Digits[(n % 10) + 1]>>

\* "%02d" / "%04d" of strftime and isoformat
RECURSIVE ZeroPad(_, _)
ZeroPad(s, width) == IF Len(s) >= width THEN s ELSE ZeroPad(<<"0">> \o s, width)

Contains(s, c) == \E i \in 1..Len(s) : s[i] = c

IsDigit(c) == \E i \in 1..10 : Digits[i] = c

DigitVal(c) == (CHOOSE i \in 1..10 : Digits[i] = c) - 1

\* the int a digit string denotes
RECURSIVE ParseNat(_)
ParseNat(s) == IF s = <<>> THEN 0
               ELSE 10 * ParseNat(SubSeq(s, 1, Len(s) - 1)) + DigitVal(s[Len(s)])

\* mutant of JoinComma: the separator without its blank
RECURSIVE JoinNoBlank(_)
JoinNoBlank(items) ==
    IF items = <<>> THEN <<>>
    ELSE IF Len(items) = 1 THEN items[1]
    ELSE items[1] \o <<",">> \o JoinNoBlank(Tail(items))

\* ", ".join(items)
RECURSIVE JoinComma(_)
JoinComma(items) ==
    IF items = <<>> THEN <<>>
    ELSE IF Len(items) = 1 THEN items[1]
    ELSE items[1] \o <<",", " ">> \o JoinComma(Tail(items))

(***************************************************************************)
(* Dicts                                                                   *)
(***************************************************************************)
Has(d, k) == k \in DOMAIN d

\* d.get(k, default)
Get(d, k, default) == IF Has(d, k) THEN d[k] ELSE default

(***************************************************************************)
(* format_time_seconds                                                     *)
(***************************************************************************)
Hours(s) == s \div 3600

\* mutant of Minutes: the hours are not taken out first
MinutesOfTotal(s) == s \div 60

Minutes(s) == (s % 3600) \div 60

RemainingSeconds(s) == s % 60

\* mutant of format_time_seconds: no special case for 0, and the hour
\* branch taken from the first minute of the second hour only
format_time_seconds_loose(s) ==
    IF Hours(s) > 0 /\ s > 3600
    THEN ToStr(Hours(s)) \o <<"h", " ">> \o ToStr(Minutes(s)) \o <<"m", " ">>
         \o ToStr(RemainingSeconds(s)) \o <<"s">>
    ELSE IF Minutes(s) > 0
    THEN ToStr(Minutes(s)) \o <<"m", " ">> \o ToStr(RemainingSeconds(s)) \o <<"s">>
    ELSE ToStr(RemainingSeconds(s)) \o <<"s">>

format_time_seconds(s) ==
    IF s = 0 THEN <<"0">>
    ELSE IF Hours(s) > 0
    THEN ToStr(Hours(s)) \o <<"h", " ">> \o ToStr(Minutes(s)) \o <<"m", " ">>
         \o ToStr(RemainingSeconds(s)) \o <<"s">>
    ELSE IF Minutes(s) > 0
    THEN ToStr(Minutes(s)) \o <<"m", " ">> \o ToStr(RemainingSeconds(s)) \o <<"s">>
    ELSE ToStr(RemainingSeconds(s)) \o <<"s">>

(***************************************************************************)
(* Dates of the range filter                                               *)
(***************************************************************************)
\* what datetime.strptime(date_str, "%Y-%m-%d") returns: midnight of a day
StartDates == { <<>>, << [year |-> 2024, month |-> 1, day |-> 15] >> }

EndDates == { <<>>, << [year |-> 2024, month |-> 12, day |-> 3] >> }

\* datetime.isoformat() of a midnight: YYYY-MM-DDT00:00:00
isoformat(d) ==
    ZeroPad(ToStr(d.year), 4) \o <<"-">> \o ZeroPad(ToStr(d.month), 2) \o <<"-">>
    \o ZeroPad(ToStr(d.day), 2) \o <<"T", "0", "0", ":", "0", "0", ":", "0", "0">>

(***************************************************************************)
(* Issue records as the API returns them                                   *)
(***************************************************************************)
Timestamp == <<"2", "0", "2", "4", "-", "0", "1", "-", "1", "5", "T", "1", "0",
               ":", "3", "0", ":", "0", "0", ".", "0", "0", "0", "Z">>

NotADate == <<"n", "o", "t", " ", "a", " ", "d", "a", "t", "e">>

LongTitle ==
    <<"E", "x", "p", "o", "r", "t", " ", "f", "a", "i", "l", "s", " ", "w", "h",
      "e", "n", " ", "t", "h", "e", " ", "p", "r", "o", "j", "e", "c", "t", " ",
      "h", "a", "s", " ", "m", "o", "r", "e", " ", "t", "h", "a", "n", " ", "f",
      "i", "f", "t", "y", " ", "i", "s", "s", "u", "e", "s">>

Ana == <<"A", "n", "a">>

Luis == <<"L", "u", "i", "s">>

\* every field present
FullIssue ==
    [ iid |-> 1,
      title |-> <<"B", "u", "g">>,
      description |-> <<"d", "e", "s", "c">>,
      author |-> [name |-> <<"E", "v", "a">>],
      state |-> <<"o", "p", "e", "n", "e", "d">>,
      assignees |-> << [name |-> Ana], [name |-> Luis] >>,
      labels |-> << <<"b", "u", "g">>, <<"u", "i">> >>,
      created_at |-> Timestamp,
      time_stats |-> [time_estimate |-> 5400, total_time_spent |-> 0] ]

\* the required fields only
BareIssue ==
    [ iid |-> 12,
      title |-> LongTitle,
      author |-> [name |-> Ana],
      state |-> <<"c", "l", "o", "s", "e", "d">>,
      created_at |-> Timestamp ]

\* empty lists, and a statistics object with one sub-field only
PartialStats(sub, secs) ==
    [ iid |-> 7,
      title |-> <<"u", "i">>,
      description |-> <<>>,
      author |-> [name |-> Luis],
      state |-> <<"o", "p", "e", "n", "e", "d">>,
      assignees |-> <<>>,
      labels |-> << <<"u", "i">> >>,
      created_at |-> Timestamp,
      time_stats |-> (sub :> secs) ]

WellFormed == { FullIssue, BareIssue,
                PartialStats("time_estimate", 3661),
                PartialStats("total_time_spent", 59) }

\* two orders of the well-formed records
Orders ==
    { <<FullIssue, BareIssue, PartialStats("time_estimate", 3661),
        PartialStats("total_time_spent", 59)>>,
      <<PartialStats("total_time_spent", 59), FullIssue,
        PartialStats("time_estimate", 3661), BareIssue>> }

RequiredFields == {"iid", "title", "author", "state", "created_at"}

\* d without the key k
Without(d, k) == [x \in (DOMAIN d) \ {k} |-> d[x]]

\* records lacking a required field, an author without a name, and a
\* timestamp that does not parse
Malformed ==
    { Without(FullIssue, k) : k \in RequiredFields }
    \cup { [FullIssue EXCEPT !.author = [username |-> Ana]],
           [FullIssue EXCEPT !.created_at = NotADate] }

\* n records taken round an order, from its position first
Cycle(order, first, n) ==
    [i \in 1..n |-> order[((first + i - 2) % Len(order)) + 1]]

\* the small projects: well-formed records, and the same with one record
\* replaced by a malformed one
SmallProjects ==
    LET sound == { Cycle(o, f, n) : o \in Orders, f \in 1..4, n \in 0..MaxIssues }
    IN  sound \cup UNION { { [q EXCEPT ![i] = m] : i \in DOMAIN q, m \in Malformed } :
                            q \in sound }

per_page == 100

\* the large projects: more issues than a page takes
BulkProjects == { [i \in 1..n |-> [FullIssue EXCEPT !.iid = i]] : n \in {137, 200} }

Projects == SmallProjects \cup BulkProjects

\* the number of records the server may put in its next page: it grants
\* per_page to a large project and may cap the pages of a small one
PageSizes == IF Len(project) >= per_page THEN {per_page} ELSE 1..MaxPageLen

Min(a, b) == IF a < b THEN a ELSE b

\* the page of at most n records that follows the served ones
PageAfter(served, n) == SubSeq(project, served + 1, Min(served + n, Len(project)))

Failures == {"ConnectionError", "HTTPError"}

(***************************************************************************)
(* fetch_issues                                                            *)
(***************************************************************************)
Some(x) == x # <<>>

\* the params dict before the loop
InitialParams(sd, ed) ==
    [per_page |-> per_page, page |-> 1, state |-> "all"]
    @@ (IF Some(sd) THEN ("created_after" :> isoformat(sd[1])) ELSE <<>>)
    @@ (IF Some(ed) THEN ("created_before" :> isoformat(ed[1])) ELSE <<>>)

\* mutant of Extend: the new page put in front
ExtendInFront(all, page) == page \o all

\* all_issues.extend(issues)
Extend(all, page) == all \o page

\* mutant of NextPage: the page index left as it is
SamePage(p) == p

\* params['page'] += 1
NextPage(p) == p + 1

\* mutant of ExceptReturn: what was fetched so far is returned
ReturnPartial(all) == all

\* the value of the except branch: return []
ExceptReturn(all) == <<>>

Say(text, number) == [msg |-> text, n |-> number]


(***************************************************************************)
(* Record transformation of export_to_excel                                *)
(***************************************************************************)
headers ==
    << <<"I", "D", " ", "d", "e", "l", " ", "i", "s", "s", "u", "e">>,
       <<"T", "í", "t", "u", "l", "o", " ", "d", "e", "l", " ", "i", "s", "s",
         "u", "e">>,
       <<"D", "e", "s", "c", "r", "i", "p", "c", "i", "ó", "n", " ", "d", "e",
         "l", " ", "i", "s", "s", "u", "e">>,
       <<"N", "o", "m", "b", "r", "e", " ", "d", "e", "l", " ", "a", "u", "t",
         "o", "r">>,
       <<"E", "s", "t", "a", "d", "o", " ", "d", "e", "l", " ", "i", "s", "s",
         "u", "e">>,
       <<"A", "s", "i", "g", "n", "a", "d", "o", "s", " ", "a", "l", " ", "i",
         "s", "s", "u", "e">>,
       <<"E", "t", "i", "q", "u", "e", "t", "a", "s", " ", "d", "e", "l", " ",
         "i", "s", "s", "u", "e">>,
       <<"F", "e", "c", "h", "a", " ", "y", " ", "h", "o", "r", "a", " ", "d",
         "e", " ", "c", "r", "e", "a", "c", "i", "ó", "n">>,
       <<"T", "i", "e", "m", "p", "o", " ", "t", "o", "t", "a", "l", " ", "e",
         "s", "t", "i", "m", "a", "d", "o">>,
       <<"T", "i", "e", "m", "p", "o", " ", "t", "o", "t", "a", "l", " ", "g",
         "a", "s", "t", "a", "d", "o">> >>

Columns == 1..Len(headers)

\* a cell holding an int, and a cell holding text
IntCell(i) == [t |-> "int", n |-> i, s |-> <<>>]

StrCell(text) == [t |-> "str", n |-> 0, s |-> text]

\* str(cell.value)
StrOf(cell) == IF cell.t = "int" THEN ToStr(cell.n) ELSE cell.s

\* dateutil's parser on the API's timestamps: YYYY-MM-DD, a separator,
\* HH:MM:SS, then fraction and offset; anything else is a ParserError
Parseable(ts) ==
    /\ Len(ts) >= 19
    /\ \A i \in {1, 2, 3, 4, 6, 7, 9, 10, 12, 13, 15, 16, 18, 19} : IsDigit(ts[i])
    /\ ts[5] = "-" /\ ts[8] = "-"
    /\ ts[11] \in {"T", " "}
    /\ ts[14] = ":" /\ ts[17] = ":"

\* parser.parse(ts).strftime("%Y-%m-%d %H:%M:%S"): the fields as written,
\* no conversion of the offset
FormatCreated(ts) == SubSeq(ts, 1, 10) \o <<" ">> \o SubSeq(ts, 12, 19)

Names(people) == [i \in 1..Len(people) |-> people[i].name]

\* the statements of the loop body that raise: assignee['name'],
\* issue['created_at'] and its parse, issue['iid'], issue['title'],
\* issue['author']['name'], issue['state']
Raises(issue) ==
    \/ \E i \in 1..Len(Get(issue, "assignees", <<>>)) :
           ~Has(Get(issue, "assignees", <<>>)[i], "name")
    \/ ~Has(issue, "created_at")
    \/ Has(issue, "created_at") /\ ~Parseable(issue.created_at)
    \/ ~Has(issue, "iid")
    \/ ~Has(issue, "title")
    \/ ~Has(issue, "author")
    \/ Has(issue, "author") /\ ~Has(issue.author, "name")
    \/ ~Has(issue, "state")

\* the list "data" of one issue
Row(issue) ==
    LET assignees == JoinComma(Names(Get(issue, "assignees", <<>>)))
        labels == JoinComma(Get(issue, "labels", <<>>))
        created_at == FormatCreated(issue.created_at)
        time_stats == Get(issue, "time_stats", <<>>)
        estimated_time == format_time_seconds(Get(time_stats, "time_estimate", 0))
        spent_time == format_time_seconds(Get(time_stats, "total_time_spent", 0))
    IN  << IntCell(issue.iid),
           StrCell(issue.title),
           StrCell(Get(issue, "description", <<>>)),
           StrCell(issue.author.name),
           StrCell(issue.state),
           StrCell(assignees),
           StrCell(labels),
           StrCell(created_at),
           StrCell(estimated_time),
           StrCell(spent_time) >>

\* mutant of EnumerateRow: the rows counted from 1
EnumerateFromOne(i) == i

\* enumerate(issues, 2): the row of the i-th issue
EnumerateRow(i) == i + 1

\* mutant of RowOutcome: the error of a record is swallowed and the loop goes on
RowSkipped(issue) == "export"

\* where control goes after the loop body: no handler is around it, an
\* exception leaves export_to_excel and main
RowOutcome(issue) == IF Raises(issue) THEN "raised" ELSE "export"

\* max_length of a column of the sheet: 0, raised by every longer cell
max_length(sheet, col) ==
    LET lengths == {0} \cup {Len(StrOf(sheet[r][col])) : r \in DOMAIN sheet}
    IN  CHOOSE n \in lengths : \A m \in lengths : m <= n

\* mutant of adjusted_width: no cap
UncappedWidth(len) == len + 2

\* min(max_length + 2, 50)
adjusted_width(len) == IF len + 2 < 50 THEN len + 2 ELSE 50

column_dimensions(sheet) == [c \in Columns |-> adjusted_width(max_length(sheet, c))]

\* mutant of Falsy: the driver does not test the result
NeverFalsy(list) == FALSE

\* "not issues" of a list
Falsy(list) == list = <<>>

(***************************************************************************)
(* The program                                                             *)
(***************************************************************************)
Init ==
    /\ pc = "main"
    /\ project \in Projects
    /\ start_date \in StartDates
    /\ end_date \in EndDates
    /\ params = <<>>
    /\ requests = <<>>
    /\ responses = <<>>
    /\ all_issues = <<>>
    /\ issues = <<>>
    /\ console = <<>>
    /\ ws = <<>>
    /\ row_i = 0
    /\ saved = <<>>
    /\ seconds = 0
    /\ formatted = <<>>

\* main up to the call, and fetch_issues up to its loop
MainFetch ==
    /\ pc = "main"
    /\ console' = Append(console, Say("Obteniendo issues de GitLab", 0))
    /\ params' = InitialParams(start_date, end_date)
    /\ all_issues' = <<>>
    /\ pc' = "fetch"
    /\ UNCHANGED <<project, start_date, end_date, requests, responses, issues, ws, row_i,
                   saved, seconds, formatted>>

\* one turn of the loop: the request is answered by a non-empty page
FetchPage ==
    /\ pc = "fetch"
    /\ Len(all_issues) < Len(project)
    /\ \E n \in PageSizes :
        LET page == PageAfter(Len(all_issues), n)
        IN  /\ requests' = Append(requests, params)
            /\ responses' = Append(responses, [kind |-> "ok", body |-> page])
            /\ all_issues' = Extend(all_issues, page)
            /\ params' = [params EXCEPT !.page = NextPage(@)]
            /\ console' = Append(console, Say("Fetched issues so far", Len(all_issues')))
    /\ UNCHANGED <<pc, project, start_date, end_date, issues, ws, row_i, saved, seconds,
                   formatted>>

\* one turn of the loop: the request is answered by an empty page; break
FetchEmpty ==
    /\ pc = "fetch"
    /\ Len(all_issues) >= Len(project)
    /\ requests' = Append(requests, params)
    /\ responses' = Append(responses, [kind |-> "ok", body |-> <<>>])
    /\ issues' = all_issues
    /\ pc' = "fetched"
    /\ UNCHANGED <<project, start_date, end_date, params, all_issues, console, ws, row_i,
                   saved, seconds, formatted>>

\* one turn of the loop: requests.get or raise_for_status raises
FetchFail ==
    /\ pc = "fetch"
    /\ \E failure \in Failures :
        /\ requests' = Append(requests, params)
        /\ responses' = Append(responses, [kind |-> failure, body |-> <<>>])
    /\ console' = Append(console, Say("Error fetching issues", 0))
    /\ issues' = ExceptReturn(all_issues)
    /\ pc' = "fetched"
    /\ UNCHANGED <<project, start_date, end_date, params, all_issues, ws, row_i, saved,
                   seconds, formatted>>

\* main: if not issues
MainNoIssues ==
    /\ pc = "fetched"
    /\ Falsy(issues)
    /\ console' = Append(console, Say("No se encontraron issues", 0))
    /\ pc' = "done"
    /\ UNCHANGED <<project, start_date, end_date, params, requests, responses, all_issues,
                   issues, ws, row_i, saved, seconds, formatted>>

\* main: the call of export_to_excel, up to the header row
ExportStart ==
    /\ pc = "fetched"
    /\ ~Falsy(issues)
    /\ console' = console \o <<Say("Se encontraron issues", Len(issues)),
                               Say("Exportando a Excel", 0)>>
    /\ ws' = (1 :> [c \in Columns |-> StrCell(headers[c])])
    /\ row_i' = 1
    /\ pc' = "export"
    /\ UNCHANGED <<project, start_date, end_date, params, requests, responses, all_issues,
                   issues, saved, seconds, formatted>>

\* one turn of the row loop
ExportRow ==
    /\ pc = "export"
    /\ row_i <= Len(issues)
    /\ LET issue == issues[row_i]
       IN  /\ pc' = RowOutcome(issue)
           /\ ws' = IF Raises(issue) THEN ws
                    ELSE (EnumerateRow(row_i) :> Row(issue)) @@ ws
           /\ row_i' = IF pc' = "raised" THEN row_i ELSE row_i + 1
    /\ UNCHANGED <<project, start_date, end_date, params, requests, responses, all_issues,
                   issues, console, saved, seconds, formatted>>

\* after the row loop: the column widths, wb.save, and main's last print
SaveWorkbook ==
    /\ pc = "export"
    /\ row_i > Len(issues)
    /\ saved' = Append(saved, [filename |-> "gitlab_issues_<timestamp>.xlsx",
                               rows |-> ws,
                               widths |-> column_dimensions(ws)])
    /\ console' = Append(console, Say("Issues exportados exitosamente", 0))
    /\ pc' = "done"
    /\ UNCHANGED <<project, start_date, end_date, params, requests, responses, all_issues,
                   issues, ws, row_i, seconds, formatted>>

Next ==
    \/ MainFetch
    \/ FetchPage
    \/ FetchEmpty
    \/ FetchFail
    \/ MainNoIssues
    \/ ExportStart
    \/ ExportRow
    \/ SaveWorkbook

Spec == Init /\ [][Next]_vars

(***************************************************************************)
(* format_time_seconds on its own                                          *)
(***************************************************************************)
InitFmt ==
    /\ pc = "format"
    /\ seconds \in 0..MaxSeconds
    /\ project = <<>>
    /\ formatted = <<>>
    /\ start_date = <<>>
    /\ end_date = <<>>
    /\ params = <<>>
    /\ requests = <<>>
    /\ responses = <<>>
    /\ all_issues = <<>>
    /\ issues = <<>>
    /\ console = <<>>
    /\ ws = <<>>
    /\ row_i = 0
    /\ saved = <<>>

FormatCall ==
    /\ pc = "format"
    /\ formatted' = format_time_seconds(seconds)
    /\ pc' = "formatted"
    /\ UNCHANGED <<project, start_date, end_date, params, requests, responses, all_issues,
                   issues, console, ws, row_i, saved, seconds>>

NextFmt == FormatCall

SpecFmt == InitFmt /\ [][NextFmt]_vars

(***************************************************************************)
(* Properties                                                              *)
(***************************************************************************)
Last(q) == q[Len(q)]

\* the last request met a failure
Failed == responses # <<>> /\ Last(responses).kind # "ok"

\* the last request met an empty page
EndOfData == responses # <<>> /\ Last(responses).kind = "ok" /\ Last(responses).body = <<>>

\* the bodies of the responses, one after the other
RECURSIVE ConcatBodies(_)
ConcatBodies(rs) == IF rs = <<>> THEN <<>>
                    ELSE ConcatBodies(SubSeq(rs, 1, Len(rs) - 1)) \o Last(rs).body

NonEmptyPages == {i \in 1..Len(responses) : responses[i].body # <<>>}

\* C1: when k >= 0 non-empty pages are followed by an empty page, the loop
\* is left and fetch_issues returns the pages concatenated in request order,
\* the order inside each page kept: every record the server holds, once.
C1_PagesConcatenated ==
    EndOfData =>
        /\ pc # "fetch"
        /\ issues = ConcatBodies(responses)
        /\ issues = project
        /\ \A i \in 1..Len(responses) : responses[i].kind = "ok"

C1_Witness ==
    /\ pc = "fetched"
    /\ EndOfData
    /\ Len(responses) = 3
    /\ responses[1].body # responses[2].body
    /\ Len(issues) = 3

\* C2: when a request fails, after any number of successful pages, the loop
\* is left at once, the failed request is the last one issued, and
\* fetch_issues returns the empty list: what was accumulated is discarded.
C2_FailureReturnsEmpty ==
    /\ \A i \in 1..(Len(responses) - 1) : responses[i].kind = "ok"
    /\ Len(requests) = Len(responses)
    /\ Failed => pc # "fetch" /\ issues = <<>>

C2_Witness ==
    /\ pc = "done"
    /\ Failed
    /\ Len(all_issues) >= 2
    /\ Len(responses) = 3

\* C3: the saved document of N well-formed records has N + 1 rows, the
\* header in row 1 and the i-th record in row i + 1.
C3_RowPerRecord ==
    \A d \in 1..Len(saved) :
        LET rows == saved[d].rows
        IN  /\ DOMAIN rows = 1..(Len(issues) + 1)
            /\ rows[1] = [c \in Columns |-> StrCell(headers[c])]
            /\ \A i \in 1..Len(issues) :
                   /\ rows[i + 1][1] = IntCell(issues[i].iid)
                   /\ rows[i + 1][2] = StrCell(issues[i].title)
                   /\ rows[i + 1][4] = StrCell(issues[i].author.name)
            /\ (Len(issues) = 137 => Cardinality(DOMAIN rows) = 138)

\* the 137 records of the pages [100, 37] are saved
C3_Witness ==
    /\ Len(saved) = 1
    /\ Len(responses) = 3
    /\ Len(responses[1].body) = 100
    /\ Len(responses[2].body) = 37
    /\ Len(issues) = 137

C3_WitnessSmall ==
    /\ Len(saved) = 1
    /\ Len(issues) = 3
    /\ issues[1] # issues[2]

\* C4: format_time_seconds(s) contains "h" iff s >= 3600, contains "m" iff
\* s >= 60, and is "0" for s = 0.
C4_UnitsShown ==
    pc = "formatted" =>
        /\ Contains(formatted, "h") <=> seconds >= 3600
        /\ Contains(formatted, "m") <=> seconds >= 60
        /\ seconds = 0 => formatted = <<"0">>

C4_Witness == pc = "formatted" /\ seconds = 3600 /\ Contains(formatted, "h")

\* the parts of a text between its blanks
RECURSIVE Split(_)
Split(text) ==
    IF ~Contains(text, " ") THEN <<text>>
    ELSE LET i == CHOOSE j \in 1..Len(text) :
                      text[j] = " " /\ \A k \in 1..(j - 1) : text[k] # " "
         IN  <<SubSeq(text, 1, i - 1)>> \o Split(SubSeq(text, i + 1, Len(text)))

\* the number a component such as 30m shows, and its unit
Shown(part) == ParseNat(SubSeq(part, 1, Len(part) - 1))

Unit(part) == part[Len(part)]

Weight(unit) == IF unit = "h" THEN 3600 ELSE IF unit = "m" THEN 60 ELSE 1

RECURSIVE Total(_)
Total(parts) == IF parts = <<>> THEN 0
                ELSE Shown(parts[1]) * Weight(Unit(parts[1])) + Total(Tail(parts))

\* C5: for s > 0 the result is "{hours}h {minutes}m {rem}s" when hours > 0,
\* else "{minutes}m {rem}s" when minutes > 0, else "{rem}s"; the components
\* shown add up to s, with minutes and rem below 60.
C5_Rendering ==
    pc = "formatted" /\ seconds > 0 =>
        LET h == seconds \div 3600
            m == (seconds - 3600 * h) \div 60
            r == seconds - 3600 * h - 60 * m
            parts == Split(formatted)
        IN  /\ h > 0 => formatted = ToStr(h) \o <<"h", " ">> \o ToStr(m) \o <<"m", " ">>
                                    \o ToStr(r) \o <<"s">>
            /\ h = 0 /\ m > 0 => formatted = ToStr(m) \o <<"m", " ">> \o ToStr(r) \o <<"s">>
            /\ h = 0 /\ m = 0 => formatted = ToStr(r) \o <<"s">>
            /\ Total(parts) = seconds
            /\ \A i \in 1..Len(parts) :
                   /\ Unit(parts[i]) \in {"h", "m", "s"}
                   /\ Unit(parts[i]) \in {"m", "s"} => Shown(parts[i]) < 60
            /\ seconds = 59 => formatted = <<"5", "9", "s">>
            /\ seconds = 60 => formatted = <<"1", "m", " ", "0", "s">>
            /\ seconds = 3599 => formatted = <<"5", "9", "m", " ", "5", "9", "s">>
            /\ seconds = 3600 => formatted = <<"1", "h", " ", "0", "m", " ", "0", "s">>
            /\ seconds = 5400 => formatted = <<"1", "h", " ", "3", "0", "m", " ", "0", "s">>

C5_Witness ==
    /\ pc = "formatted"
    /\ seconds = 5400
    /\ formatted = <<"1", "h", " ", "3", "0", "m", " ", "0", "s">>

\* a record lacks a required field, the author's name included
LacksRequired(issue) ==
    \/ ~(RequiredFields \subseteq DOMAIN issue)
    \/ Has(issue, "author") /\ ~Has(issue.author, "name")

Zero == StrCell(<<"0">>)

Empty == StrCell(<<>>)

\* C6: a record lacking assignees, labels, the statistics object or one of
\* its sub-fields gets "" in columns 6 and 7 and "0" in columns 9 and 10,
\* and raises no error; lists that are present are joined with ", " in order.
C6_OptionalDefaults ==
    /\ pc = "raised" =>
           LacksRequired(issues[row_i]) \/ issues[row_i].created_at = NotADate
    /\ \A r \in (DOMAIN ws) \ {1} :
        LET issue == issues[r - 1]
            row == ws[r]
        IN  /\ ~Has(issue, "assignees") => row[6] = Empty
            /\ ~Has(issue, "labels") => row[7] = Empty
            /\ ~Has(issue, "time_stats") => row[9] = Zero /\ row[10] = Zero
            /\ Has(issue, "time_stats") /\ ~Has(issue.time_stats, "time_estimate")
                   => row[9] = Zero
            /\ Has(issue, "time_stats") /\ ~Has(issue.time_stats, "total_time_spent")
                   => row[10] = Zero
            /\ Has(issue, "assignees") /\ issue.assignees = <<>> => row[6] = Empty
            /\ Has(issue, "assignees") /\ issue.assignees = <<[name |-> Ana], [name |-> Luis]>>
                   => row[6] = StrCell(<<"A", "n", "a", ",", " ", "L", "u", "i", "s">>)
            /\ Has(issue, "labels") /\ issue.labels = << <<"b", "u", "g">>, <<"u", "i">> >>
                   => row[7] = StrCell(<<"b", "u", "g", ",", " ", "u", "i">>)
            /\ Has(issue, "labels") /\ issue.labels = << <<"u", "i">> >>
                   => row[7] = StrCell(<<"u", "i">>)

C6_Witness ==
    /\ Len(saved) = 1
    /\ \E i, j, k \in 1..Len(issues) :
           /\ issues[i] = BareIssue
           /\ issues[j] = PartialStats("time_estimate", 3661)
           /\ issues[k] = FullIssue

\* C7: when a record of the input lacks a required field, the row loop does
\* not pass it: no row is written for it, the export does not complete and
\* no document is saved, whatever precedes the record.
C7_MalformedAborts ==
    \A i \in 1..Len(issues) :
        pc \in {"export", "raised", "done"} /\ LacksRequired(issues[i]) =>
            /\ saved = <<>>
            /\ pc # "done"
            /\ row_i <= i
            /\ (i + 1) \notin DOMAIN ws

C7_Witness ==
    /\ pc = "raised"
    /\ row_i = 3
    /\ LacksRequired(issues[row_i])
    /\ DOMAIN ws = 1..3

Obteniendo == Say("Obteniendo issues de GitLab", 0)

NoSeEncontraron == Say("No se encontraron issues", 0)

ErrorFetching == Say("Error fetching issues", 0)

Printed(line) == \E i \in 1..Len(console) : console[i] = line

\* the driver's part of the report: an empty list received, the "no issues
\* found" message printed last, the writer not invoked, no document; and a
\* document only after a fetch that completed with at least one record
DriverReportsNothingFound ==
    /\ pc = "done" /\ (Failed \/ (EndOfData /\ project = <<>>)) =>
           /\ issues = <<>>
           /\ Last(console) = NoSeEncontraron
           /\ Cardinality({i \in 1..Len(console) : console[i] = NoSeEncontraron}) = 1
    /\ pc \in {"fetched", "done"} /\ issues = <<>> => ws = <<>> /\ row_i = 0 /\ saved = <<>>
    /\ ws # <<>> \/ saved # <<>> => EndOfData /\ Len(issues) >= 1

\* C8 as stated: a failed fetch and an empty project are reported
\* identically, the run prints what the run over an empty project prints.
C8_ReportedIdentically ==
    /\ DriverReportsNothingFound
    /\ pc = "done" /\ issues = <<>> => console = <<Obteniendo, NoSeEncontraron>>

\* C8 as amended: the driver receives an empty list, prints the same "no
\* issues found" message and writes no document in both cases, but the
\* console tells them apart: the failed fetch, and only it, has printed
\* "Error fetching issues" (after one progress line per page fetched).
C8_DriverCannotTell ==
    /\ DriverReportsNothingFound
    /\ pc = "done" /\ EndOfData /\ project = <<>> => console = <<Obteniendo, NoSeEncontraron>>
    /\ pc = "done" /\ Failed =>
           /\ Len(console) = Cardinality(NonEmptyPages) + 3
           /\ console[Len(console) - 1] = ErrorFetching
    /\ Printed(ErrorFetching) <=> Failed

C8_Witness ==
    /\ pc = "done"
    /\ Failed
    /\ Len(all_issues) >= 2
    /\ issues = <<>>
    /\ Last(console) = NoSeEncontraron

C8_WitnessEmpty == pc = "done" /\ EndOfData /\ project = <<>>

\* the longest text of a column of the saved rows, header included
Longest(rows, c) ==
    CHOOSE n \in 0..100 :
        /\ \A r \in DOMAIN rows : Len(StrOf(rows[r][c])) <= n
        /\ \E r \in DOMAIN rows : Len(StrOf(rows[r][c])) = n

\* C9: each of the 10 columns gets the width min(L + 2, 50), L the longest
\* text of the column, header included; no width is above 50 or below the
\* header's length + 2.
C9_ColumnWidths ==
    \A d \in 1..Len(saved) :
        /\ DOMAIN saved[d].widths = 1..10
        /\ \A c \in 1..10 :
            LET w == saved[d].widths[c]
                L == Longest(saved[d].rows, c)
            IN  /\ w = Min(L + 2, 50)
                /\ w <= 50
                /\ w >= Len(headers[c]) + 2

\* the long title meets the cap, the other columns do not
C9_Witness ==
    /\ Len(saved) = 1
    /\ \E i \in 1..Len(issues) : issues[i] = BareIssue
    /\ saved[1].widths[2] = 50
    /\ saved[1].widths[1] = 14

\* C10: the requests carry the pages 1, 2, 3, ... and the same page size,
\* state filter and date parameters (present exactly when the date is); a
\* request follows only a successful non-empty page, so only an empty page
\* or a failure ends the loop and k non-empty pages cost k + 1 requests.
C10_RequestSequence ==
    /\ Len(requests) = Len(responses)
    /\ \A i \in 1..Len(requests) :
        /\ requests[i].page = i
        /\ requests[i].per_page = 100
        /\ requests[i].state = "all"
        /\ Has(requests[i], "created_after") <=> start_date # <<>>
        /\ Has(requests[i], "created_before") <=> end_date # <<>>
        /\ Has(requests[i], "created_after") =>
               requests[i].created_after =
                   <<"2", "0", "2", "4", "-", "0", "1", "-", "1", "5", "T",
                     "0", "0", ":", "0", "0", ":", "0", "0">>
        /\ Has(requests[i], "created_before") =>
               requests[i].created_before =
                   <<"2", "0", "2", "4", "-", "1", "2", "-", "0", "3", "T",
                     "0", "0", ":", "0", "0", ":", "0", "0">>
        /\ DOMAIN requests[i] = DOMAIN requests[1]
    /\ \A i \in 1..(Len(requests) - 1) :
           responses[i].kind = "ok" /\ responses[i].body # <<>>
    /\ pc \in {"fetched", "export", "raised", "done"} => EndOfData \/ Failed
    /\ pc = "fetch" => ~EndOfData /\ ~Failed
    /\ EndOfData => Len(requests) = Cardinality(NonEmptyPages) + 1

\* a page of one record is followed by a page of two and by the empty page
C10_Witness ==
    /\ pc = "fetched"
    /\ EndOfData
    /\ Len(requests) = 3
    /\ Len(responses[1].body) = 1
    /\ Len(responses[2].body) = 2
    /\ start_date # <<>>
    /\ end_date = <<>>

====
